---- MODULE Spec2Model ----
(***************************************************************************)
(* Model of net_device_parser: the IPv4Address value object, the Cisco IOS *)
(* XE ACE line parser (parse_ace_config), the ACL block parser             *)
(* (parse_acl_config) and AccessListEntry.is_hit.                          *)
(*                                                                         *)
(* Text is a sequence of one-character strings.  Python values whose type  *)
(* matters are tagged records ([type |-> "str", ...], [type |-> "int",     *)
(* ...], [type |-> "NoneType"]).  Python integers that can exceed 31 bits  *)
(* (addresses) are kept exactly as two limbs [hi, lo] of value             *)
(* hi * 65536 + lo with lo in 0..65535.                                    *)
(***************************************************************************)
EXTENDS Integers, Sequences, FiniteSets, TLC

VARIABLES
    acl,        \* parse_acl_config: the argument text
    todo,       \* parse_acl_config: acl.split('\n') still to be iterated
    aces,       \* parse_acl_config: the local list aces
    log,        \* records emitted on logger 'CiscoIOSXEACLParser'
    last,       \* the last parse_ace_config call: [line, res]
    ret,        \* how parse_acl_config ended: returned value or escaped error
    pc,         \* position of parse_acl_config
    ip,         \* IPv4Address(ip): the constructor argument
    addr,       \* IPv4Address(ip): the outcome of the constructor
    text,       \* str(addr)
    addr2,      \* IPv4Address(str(addr))
    apc,        \* position of the address scenario
    ace,        \* is_hit: the AccessListEntry (self)
    packet,     \* is_hit: the IPv4Packet argument
    hit,        \* is_hit: the outcome of the call
    hpc         \* position of the is_hit scenario

vars == <<acl, todo, aces, log, last, ret, pc,
          ip, addr, text, addr2, apc, ace, packet, hit, hpc>>

aclVars == <<acl, todo, aces, log, last, ret, pc>>
addrVars == <<ip, addr, text, addr2, apc>>
hitVars == <<ace, packet, hit, hpc>>

----------------------------------------------------------------------------
(* Characters and Python built-ins *)

Digits == <<"0", "1", "2", "3", "4", "5", "6", "7", "8", "9">>

\* [0-9]
IsDigit(c) == \E i \in 1..10 : Digits[i] = c

\* \s
IsSpace(c) == c \in {" ", "\t", "\r", "\n", "\f"}

\* membership of a character in a class of the regular expressions, the class
\* named as the source writes it
InClass(c, class) ==
    IF class = "[0-9]" \/ class = "\\d" THEN IsDigit(c)
    ELSE IF class = "[0-9.]" THEN IsDigit(c) \/ c = "."
    ELSE IF class = "\\s" THEN IsSpace(c)
    ELSE IF class = "\\S" THEN ~IsSpace(c)
    ELSE FALSE

DigitVal(c) == (CHOOSE i \in 1..10 : Digits[i] = c) - 1

\* int(s) for a string of decimal digits
RECURSIVE StrToInt(_)
StrToInt(s) ==
    IF s = <<>> THEN 0
    ELSE StrToInt(SubSeq(s, 1, Len(s) - 1)) * 10 + DigitVal(s[Len(s)])

\* str(n) for n >= 0
RECURSIVE IntToStr(_)
IntToStr(n) ==
    IF n < 10 THEN <<Digits[n + 1]>>
    ELSE IntToStr(n \div 10) \o <<Digits[(n % 10) + 1]>>

\* s.split(c)
RECURSIVE Split(_, _)
Split(s, c) ==
    IF \A k \in 1..Len(s) : s[k] # c THEN <<s>>
    ELSE LET k == CHOOSE k \in 1..Len(s) :
                      s[k] = c /\ \A j \in 1..(k - 1) : s[j] # c
         IN <<SubSeq(s, 1, k - 1)>> \o Split(SubSeq(s, k + 1, Len(s)), c)

\* sep.join(parts)
RECURSIVE Join(_, _)
Join(parts, sep) ==
    IF Len(parts) = 0 THEN <<>>
    ELSE IF Len(parts) = 1 THEN parts[1]
    ELSE parts[1] \o sep \o Join(Tail(parts), sep)

\* The end of the longest run of characters of a class that starts at
\* position i of s (a greedy class* of a regular expression): the position
\* after it.
Span(s, i, class) ==
    IF i > Len(s) THEN i
    ELSE CHOOSE j \in i..(Len(s) + 1) :
            /\ \A k \in i..(j - 1) : InClass(s[k], class)
            /\ (j = Len(s) + 1 \/ ~InClass(s[j], class))

\* s[i:].startswith(w)
StartsAt(s, i, w) ==
    /\ i + Len(w) - 1 <= Len(s)
    /\ SubSeq(s, i, i + Len(w) - 1) = w

\* the position after the literal w at position i, or i when it is not there
Literal(s, i, w) == IF StartsAt(s, i, w) THEN i + Len(w) ELSE i

W_permit == <<"p", "e", "r", "m", "i", "t">>
W_deny == <<"d", "e", "n", "y">>
W_eq == <<"e", "q">>

\* the position after one item of a pattern matched greedily at position i:
\* a literal, an alternation of literals, or a run of a character class
ItemEnd(s, i, item) ==
    IF item = "eq" THEN Literal(s, i, W_eq)
    ELSE IF item = "\\." THEN Literal(s, i, <<".">>)
    ELSE IF item = "permit|deny"
    THEN (IF StartsAt(s, i, W_permit) THEN Literal(s, i, W_permit)
          ELSE Literal(s, i, W_deny))
    ELSE Span(s, i, item)

\* the end positions of the items of a pattern matched one after the other
\* from position i, each greedily
RECURSIVE Runs(_, _, _)
RunsFrom(s, items, e) == <<e>> \o Runs(s, Tail(items), e)

Runs(s, items, i) ==
    IF items = <<>> THEN <<>> ELSE RunsFrom(s, items, ItemEnd(s, i, Head(items)))

----------------------------------------------------------------------------
(* Python integers beyond 31 bits: two limbs *)

Limb == 256 * 256

Big(h, l) == [hi |-> h, lo |-> l]

\* the Python int with value n, for n that fits one limb computation
BigOfInt(n) == Big(n \div Limb, n % Limb)

BigAdd(a, b) ==
    Big(a.hi + b.hi + ((a.lo + b.lo) \div Limb), (a.lo + b.lo) % Limb)

\* n << bits, for bits in {0, 8, 16, 24}
BigShl(n, bits) ==
    IF bits = 0 THEN BigOfInt(n)
    ELSE IF bits = 8 THEN Big(n \div 256, (n % 256) * 256)
    ELSE IF bits = 16 THEN Big(n, 0)
    ELSE Big(n * 256, 0)

\* (a & (255 << bits)) >> bits, for a >= 0 and bits in {0, 8, 16, 24}
BigOctet(a, bits) ==
    IF bits = 0 THEN a.lo % 256
    ELSE IF bits = 8 THEN a.lo \div 256
    ELSE IF bits = 16 THEN a.hi % 256
    ELSE (a.hi \div 256) % 256

----------------------------------------------------------------------------
(* Tagged Python values *)

PyStr(s) == [type |-> "str", val |-> s]
PyInt(n) == [type |-> "int", val |-> n]
PyBool(b) == [type |-> "bool", val |-> b]
PyNone == [type |-> "NoneType"]

----------------------------------------------------------------------------
(* models.py: IPv4Address *)

Raised(e) == [kind |-> e]

\* '$': the end of the string, or just before a newline that ends it
AtEnd(s, i) == i = Len(s) + 1 \/ (i = Len(s) /\ s[i] = "\n")

OctetsPattern ==
    <<"[0-9]", "\\.", "[0-9]", "\\.", "[0-9]", "\\.", "[0-9]">>

\* the groups of OctetsPattern given the ends e of its items, <<>> when an
\* item is empty or the last does not end the string
OctetsGroups(s, e) ==
    IF /\ e[1] > 1 /\ \A k \in 2..7 : e[k] > e[k - 1]
       /\ AtEnd(s, e[7])
    THEN <<SubSeq(s, 1, e[1] - 1), SubSeq(s, e[2], e[3] - 1),
           SubSeq(s, e[4], e[5] - 1), SubSeq(s, e[6], e[7] - 1)>>
    ELSE <<>>

\* re.search(r'^([0-9]+)\.([0-9]+)\.([0-9]+)\.([0-9]+)$', ip): the four groups,
\* or <<>> when there is no match
OctetsMatch(s) == OctetsGroups(s, Runs(s, OctetsPattern, 1))

\* SumOctets with the shift taken from the wrong end: index * 8
RECURSIVE SumOctetsLittleEndian(_, _)
SumOctetsLittleEndian(octets, index) ==
    IF index > 3 THEN Big(0, 0)
    ELSE BigAdd(BigShl(StrToInt(octets[index + 1]), index * 8),
                SumOctetsLittleEndian(octets, index + 1))

\* the loop of _from_string: final_number += int(octet) << ((3 - index) * 8)
RECURSIVE SumOctets(_, _)
SumOctets(octets, index) ==
    IF index > 3 THEN Big(0, 0)
    ELSE BigAdd(BigShl(StrToInt(octets[index + 1]), (3 - index) * 8),
                SumOctets(octets, index + 1))

\* IPv4Address._from_string, octets the groups of the match
FromOctets(octets) ==
    IF octets # <<>>
    THEN [kind |-> "ok", val |-> SumOctets(octets, 0)]
    ELSE Raised("IPv4AddressException")

FromString(s) == FromOctets(OctetsMatch(s))

\* ip < 0 or ip >= math.pow(2, 32)
OutOfRange(n) == n.hi < 0 \/ n.hi >= Limb

\* the range check and the construction of IPv4Address.__init__, conv the
\* outcome of the conversion before it
CheckRange(conv) ==
    IF conv.kind # "ok" THEN conv
    ELSE IF OutOfRange(conv.val) THEN Raised("IPv4AddressException")
    ELSE [kind |-> "ok", ip |-> conv.val]

\* IPv4Address.__init__
IPv4Address(arg) ==
    IF arg.type = "NoneType" THEN Raised("TypeError")
    ELSE IF arg.type = "str" THEN CheckRange(FromString(arg.val))
    ELSE CheckRange([kind |-> "ok", val |-> arg.val])

\* StrOctets with the mask 255 narrowed to 127
RECURSIVE StrOctetsMask127(_, _)
StrOctetsMask127(n, octet) ==
    IF octet > 3 THEN <<>>
    ELSE <<IntToStr(BigOctet(n, (3 - octet) * 8) % 128)>>
         \o StrOctetsMask127(n, octet + 1)

\* IPv4Address.__str__
RECURSIVE StrOctets(_, _)
StrOctets(n, octet) ==
    IF octet > 3 THEN <<>>
    ELSE <<IntToStr(BigOctet(n, (3 - octet) * 8))>> \o StrOctets(n, octet + 1)

ToStr(n) == Join(StrOctets(n, 0), <<".">>)

----------------------------------------------------------------------------
(* models.py: the enums and AccessListEntry *)

W_ip == <<"i", "p">>
W_udp == <<"u", "d", "p">>
W_tcp == <<"t", "c", "p">>
W_icmp == <<"i", "c", "m", "p">>
W_any == <<"a", "n", "y">>
W_host_sp == <<"h", "o", "s", "t", " ">>
W_any_expansion == <<"0", ".", "0", ".", "0", ".", "0", " ", "2", "5", "5", ".", "2", "5", "5", ".", "2", "5", "5", ".", "2", "5", "5">>
W_host_suffix == <<" ", "0", ".", "0", ".", "0", ".", "0">>

\* AccessListAction(value): the member with that value
AccessListAction(w) ==
    IF w = W_deny THEN "deny" ELSE IF w = W_permit THEN "permit" ELSE "invalid"

\* AccessListProtocol(value): the member with that value
AccessListProtocol(w) ==
    IF w = W_ip THEN "ip"
    ELSE IF w = W_udp THEN "udp"
    ELSE IF w = W_tcp THEN "tcp"
    ELSE IF w = W_icmp THEN "icmp"
    ELSE "invalid"

\* ACEIPv4Address(address=a, wildcard_mask=w), a and w IPv4Address objects
ACEIPv4Address(a, w) ==
    [address |-> [ip |-> a.ip], wildcard_mask |-> [ip |-> w.ip]]

\* AccessListEntry(index_number=number, action=action, protocol=protocol), the
\* three arguments strings: validation turns the decimal string into an int and
\* the words into enum members, and rejects a word that is no member's value.
\* The other four fields take their default None.
AccessListEntry(number, action, protocol) ==
    IF AccessListAction(action) = "invalid"
       \/ AccessListProtocol(protocol) = "invalid"
    THEN Raised("ValidationError")
    ELSE [kind |-> "ok",
          obj |-> [index_number |-> PyInt(StrToInt(number)),
                   action |-> AccessListAction(action),
                   protocol |-> AccessListProtocol(protocol),
                   source_ipv4 |-> PyNone,
                   source_port |-> PyNone,
                   destination_ipv4 |-> PyNone,
                   destination_port |-> PyNone]]

----------------------------------------------------------------------------
(* acl_parser.py: CiscoIOSXEACLParser.parse_ace_config *)

NoMatch == [ok |-> FALSE]

HeaderPattern == <<"\\s", "\\d", "\\s", "permit|deny", "\\s", "\\S", "\\s">>

\* the groups of the header pattern given the ends e of its items; h is where
\* (?P<line>.+) starts: the last \s+ gives back one character when nothing but
\* white space follows the protocol
HeaderLine(s, e, h) ==
    IF /\ e[1] > 1 /\ \A k \in 2..6 : e[k] > e[k - 1]
       /\ h > e[6]
    THEN [ok |-> TRUE,
          number |-> SubSeq(s, e[1], e[2] - 1),
          action |-> SubSeq(s, e[3], e[4] - 1),
          protocol |-> SubSeq(s, e[5], e[6] - 1),
          line |-> SubSeq(s, h, Len(s))]
    ELSE NoMatch

HeaderGroups(s, e) == HeaderLine(s, e, IF e[7] <= Len(s) THEN e[7] ELSE e[7] - 1)

\* re.search(r'^\s+(?P<number>\d+)\s+(?P<action>permit|deny)\s+
\*             (?P<protocol>\S+)\s+(?P<line>.+)$', ace_config),
\* for an ace_config without newline (it is an item of acl.split('\n')).
\* Every run is followed by a character outside its class, so each takes its
\* longest extent.
HeaderMatch(s) ==
    IF \E k \in 1..Len(s) : s[k] = "\n" THEN NoMatch
    ELSE HeaderGroups(s, Runs(s, HeaderPattern, 1))

\* line.replace('any', '0.0.0.0 255.255.255.255')
RECURSIVE ReplaceAny(_)
ReplaceAny(s) ==
    IF s = <<>> THEN <<>>
    ELSE IF StartsAt(s, 1, W_any)
    THEN W_any_expansion \o ReplaceAny(SubSeq(s, Len(W_any) + 1, Len(s)))
    ELSE <<s[1]>> \o ReplaceAny(Tail(s))

\* re.sub(r'host ([0-9.]+)', r'\1 0.0.0.0', line)
RECURSIVE SubHost(_)
SubHostAt(s, e) ==
    IF StartsAt(s, 1, W_host_sp) /\ e > Len(W_host_sp) + 1
    THEN SubSeq(s, Len(W_host_sp) + 1, e - 1) \o W_host_suffix
         \o SubHost(SubSeq(s, e, Len(s)))
    ELSE <<s[1]>> \o SubHost(Tail(s))

SubHost(s) ==
    IF s = <<>> THEN <<>>
    ELSE SubHostAt(s, Span(s, Len(W_host_sp) + 1, "[0-9.]"))

DestinationPattern == <<"[0-9.]", "\\s", "[0-9.]", "\\s", "eq", "\\s", "[0-9]">>

\* the groups of the destination half given the ends e of its items
DestinationGroups(s, i, e) ==
    IF ~(e[1] > i /\ e[2] > e[1] /\ e[3] > e[2]) THEN NoMatch
    ELSE IF e[5] > e[4] /\ e[6] > e[5] /\ e[7] > e[6] /\ AtEnd(s, e[7])
    THEN [ok |-> TRUE, dst_ip |-> SubSeq(s, i, e[1] - 1),
          dst_wildcard |-> SubSeq(s, e[2], e[3] - 1),
          dst_port |-> PyStr(SubSeq(s, e[6], e[7] - 1))]
    ELSE IF e[4] = Len(s) + 1
    THEN [ok |-> TRUE, dst_ip |-> SubSeq(s, i, e[1] - 1),
          dst_wildcard |-> SubSeq(s, e[2], e[3] - 1),
          dst_port |-> PyNone]
    ELSE NoMatch

\* The destination half of the address pattern, from position i:
\* (?P<dst_ip>[0-9.]+)\s+(?P<dst_wildcard>[0-9.]+)\s*(eq\s+(?P<dst_port>[0-9]+))?$
DestinationMatch(s, i) ==
    DestinationGroups(s, i, Runs(s, DestinationPattern, i))

\* Where the destination starts when the source port ends before position r of
\* the digit run that ends before q: \s* takes all the white space that follows
\* the whole run, and nothing when the run was cut short.
DestinationStart(s, r, q) == IF r = q THEN Span(s, q, "\\s") ELSE r

\* The end of (?P<src_port>[0-9]+), whose digit run is s[p..q-1]: the longest
\* prefix of the run after which the rest of the pattern matches (the pattern
\* is greedy and backtracks); 0 when there is none.
LargestOf(ends) ==
    IF ends = {} THEN 0 ELSE CHOOSE m \in ends : \A n \in ends : n <= m

SourcePortEnd(s, p, q) ==
    LargestOf({r \in (p + 1)..q :
                  DestinationMatch(s, DestinationStart(s, r, q)).ok})

SourcePattern == <<"[0-9.]", "\\s", "[0-9.]", "\\s", "eq", "\\s", "[0-9]">>

\* the groups of a match: those of the source half, the source port and those
\* of the destination half
AllGroups(s, e, src_port, dst) ==
    IF dst.ok
    THEN [ok |-> TRUE,
          src_ip |-> SubSeq(s, 1, e[1] - 1),
          src_wildcard |-> SubSeq(s, e[2], e[3] - 1),
          src_port |-> src_port,
          dst_ip |-> dst.dst_ip,
          dst_wildcard |-> dst.dst_wildcard,
          dst_port |-> dst.dst_port]
    ELSE NoMatch

\* the match with a source port clause, r the end of the source port
WithSourcePort(s, e, r) ==
    IF r = 0 THEN NoMatch
    ELSE AllGroups(s, e, PyStr(SubSeq(s, e[6], r - 1)),
                   DestinationMatch(s, DestinationStart(s, r, e[7])))

\* the groups of the address pattern given the ends e of the items of its
\* source half
AddressGroups(s, e) ==
    IF ~(e[1] > 1 /\ e[2] > e[1] /\ e[3] > e[2] /\ e[4] > e[3]) THEN NoMatch
    ELSE IF e[5] > e[4]
    THEN (IF e[6] > e[5] /\ e[7] > e[6]
          THEN WithSourcePort(s, e, SourcePortEnd(s, e[6], e[7]))
          ELSE NoMatch)
    ELSE AllGroups(s, e, PyNone, DestinationMatch(s, e[4]))

\* re.search(r'^(?P<source>(?P<src_ip>[0-9.]+)\s+(?P<src_wildcard>[0-9.]+)
\*             \s+(eq\s+(?P<src_port>[0-9]+)\s*)?)(?P<destination>...)$', line)
AddressMatch(s) == AddressGroups(s, Runs(s, SourcePattern, 1))

InvalidEntry == Raised("ParserExceptionInvalidEntry")

\* the end of parse_ace_config: the four addresses constructed, the fields of
\* ace_entry assigned (an assignment stores the value as it is)
WithAddresses(ace_entry, ips, src_ip, src_wildcard, dst_ip, dst_wildcard) ==
    IF src_ip.kind # "ok" THEN src_ip
    ELSE IF src_wildcard.kind # "ok" THEN src_wildcard
    ELSE IF dst_ip.kind # "ok" THEN dst_ip
    ELSE IF dst_wildcard.kind # "ok" THEN dst_wildcard
    ELSE [kind |-> "ok",
          ace |-> [ace_entry.obj EXCEPT
                     !.source_ipv4 = ACEIPv4Address(src_ip, src_wildcard),
                     !.source_port = ips.src_port,
                     !.destination_ipv4 = ACEIPv4Address(dst_ip, dst_wildcard),
                     !.destination_port = ips.dst_port]]

\* parse_ace_config once the header matched: ace_entry the outcome of the
\* AccessListEntry constructor, ips the match of the address pattern
WithEntry(ace_entry, ips) ==
    IF ace_entry.kind # "ok" THEN ace_entry
    ELSE IF ~ips.ok THEN InvalidEntry
    ELSE WithAddresses(ace_entry, ips,
                       IPv4Address(PyStr(ips.src_ip)),
                       IPv4Address(PyStr(ips.src_wildcard)),
                       IPv4Address(PyStr(ips.dst_ip)),
                       IPv4Address(PyStr(ips.dst_wildcard)))

\* parse_ace_config, exploded_line the match of the header pattern
WithHeader(exploded_line) ==
    IF ~exploded_line.ok THEN InvalidEntry
    ELSE WithEntry(AccessListEntry(exploded_line.number,
                                   exploded_line.action,
                                   exploded_line.protocol),
                   AddressMatch(SubHost(ReplaceAny(exploded_line.line))))

\* CiscoIOSXEACLParser.parse_ace_config
parse_ace_config(ace_config) == WithHeader(HeaderMatch(ace_config))

----------------------------------------------------------------------------
(* Values of the variables a scenario does not use *)

Unset == [kind |-> "unset"]

AclIdle ==
    /\ acl = <<>> /\ todo = <<>> /\ aces = <<>> /\ log = <<>>
    /\ last = Unset /\ ret = Unset /\ pc = "idle"

AddrIdle ==
    /\ ip = PyNone /\ addr = Unset /\ text = <<>> /\ addr2 = Unset
    /\ apc = "idle"

HitIdle ==
    /\ ace = Unset /\ packet = Unset /\ hit = Unset /\ hpc = "idle"

----------------------------------------------------------------------------
(* acl_parser.py: CiscoIOSXEACLParser.parse_acl_config *)

\* AccessList(aces=aces)
AccessList(a) == [aces |-> a]

\* self._logger.warning('Skipping invalid line "%s"', ace_config)
LogWarning(lg, ace_config) ==
    Append(lg, [levelname |-> "WARNING",
                msg |-> "Skipping invalid line \"%s\"",
                args |-> <<ace_config>>])

\* aces.append(ace), at the front instead of the end
PrependAce(a, e) == <<e>> \o a

\* aces.append(ace)
AppendAce(a, e) == Append(a, e)

----------------------------------------------------------------------------
(* Inputs of the block parser *)

MaxLines == 2

\* Lines that follow the ACE grammar, as (index, action, protocol, source,
\* source port, destination, destination port); an address is its four octets.
AnyAddr == [form |-> "any"]
HostAddr(o) == [form |-> "host", a |-> o]
PairAddr(o, w) == [form |-> "pair", a |-> o, w |-> w]

Entry(i, act, pr, s, sp, d, dp) ==
    [index |-> i, action |-> act, protocol |-> pr, src |-> s, sport |-> sp,
     dst |-> d, dport |-> dp]

GrammarEntries ==
    { Entry(10, "permit", "tcp", AnyAddr, PyNone,
            HostAddr(<<10, 0, 0, 5>>), PyInt(80)),
      Entry(20, "deny", "udp",
            PairAddr(<<192, 168, 1, 0>>, <<0, 0, 0, 255>>), PyNone,
            PairAddr(<<192, 168, 2, 0>>, <<0, 0, 0, 255>>), PyNone),
      Entry(30, "permit", "tcp", HostAddr(<<10, 0, 0, 5>>), PyInt(1024),
            AnyAddr, PyInt(443)),
      Entry(40, "deny", "ip", AnyAddr, PyNone, AnyAddr, PyNone),
      Entry(50, "permit", "icmp",
            PairAddr(<<172, 16, 0, 0>>, <<0, 15, 255, 255>>), PyNone,
            HostAddr(<<8, 8, 8, 8>>), PyNone) }

ActionWord(a) == IF a = "permit" THEN W_permit ELSE W_deny

ProtocolWord(pr) ==
    IF pr = "ip" THEN W_ip ELSE IF pr = "udp" THEN W_udp
    ELSE IF pr = "tcp" THEN W_tcp ELSE W_icmp

QuadText(o) == Join([k \in 1..4 |-> IntToStr(o[k])], <<".">>)

AddrText(a) ==
    IF a.form = "any" THEN W_any
    ELSE IF a.form = "host" THEN W_host_sp \o QuadText(a.a)
    ELSE QuadText(a.a) \o <<" ">> \o QuadText(a.w)

PortText(pt) ==
    IF pt.type = "NoneType" THEN <<>>
    ELSE <<" ">> \o W_eq \o <<" ">> \o IntToStr(pt.val)

\* the configuration line of a grammar entry
EntryLine(e) ==
    <<" ">> \o IntToStr(e.index) \o <<" ">> \o ActionWord(e.action)
    \o <<" ">> \o ProtocolWord(e.protocol) \o <<" ">> \o AddrText(e.src)
    \o PortText(e.sport) \o <<" ">> \o AddrText(e.dst) \o PortText(e.dport)

OtherLines ==
    {
      \* "": the empty line
      <<>>,
      \* "  0 permit ip any any": index 0
      <<" ", " ", "0", " ", "p", "e", "r", "m", "i", "t", " ", "i", "p",
        " ", "a", "n", "y", " ", "a", "n", "y">>,
      \* " 30 permit foo any any": a protocol that is no AccessListProtocol
      <<" ", "3", "0", " ", "p", "e", "r", "m", "i", "t", " ", "f", "o",
        "o", " ", "a", "n", "y", " ", "a", "n", "y">>,
      \* " 40 permit tcp any eq 0 any": source port 0
      <<" ", "4", "0", " ", "p", "e", "r", "m", "i", "t", " ", "t", "c",
        "p", " ", "a", "n", "y", " ", "e", "q", " ", "0", " ", "a", "n",
        "y">>,
      \* " 50 deny ip 1.2.3 0.0.0.0 any": an address of three groups
      <<" ", "5", "0", " ", "d", "e", "n", "y", " ", "i", "p", " ", "1",
        ".", "2", ".", "3", " ", "0", ".", "0", ".", "0", ".", "0", " ",
        "a", "n", "y">>,
      \* "60 permit ip any any": no leading white space
      <<"6", "0", " ", "p", "e", "r", "m", "i", "t", " ", "i", "p", " ",
        "a", "n", "y", " ", "a", "n", "y">>,
      \* " 70 permit ip any": no destination
      <<" ", "7", "0", " ", "p", "e", "r", "m", "i", "t", " ", "i", "p",
        " ", "a", "n", "y">>,
      \* " 80 permit ip any any log": an extra token
      <<" ", "8", "0", " ", "p", "e", "r", "m", "i", "t", " ", "i", "p",
        " ", "a", "n", "y", " ", "a", "n", "y", " ", "l", "o", "g">>,
      \* " 90 permit tcp any eq 8080 0.0.0.0": a destination without wildcard after a source port
      <<" ", "9", "0", " ", "p", "e", "r", "m", "i", "t", " ", "t", "c",
        "p", " ", "a", "n", "y", " ", "e", "q", " ", "8", "0", "8", "0",
        " ", "0", ".", "0", ".", "0", ".", "0">>,
      \* " 15 permit ip host 1.300.1.1 any": an octet above 255 that fits in 32 bits
      <<" ", "1", "5", " ", "p", "e", "r", "m", "i", "t", " ", "i", "p",
        " ", "h", "o", "s", "t", " ", "1", ".", "3", "0", "0", ".", "1",
        ".", "1", " ", "a", "n", "y">>,
      \* " 16 permit ip host 300.1.1.1 any": an octet above 255 that does not fit
      <<" ", "1", "6", " ", "p", "e", "r", "m", "i", "t", " ", "i", "p",
        " ", "h", "o", "s", "t", " ", "3", "0", "0", ".", "1", ".", "1",
        ".", "1", " ", "a", "n", "y">>,
      \* "ip access-list extended WEB": an ACL header line
      <<"i", "p", " ", "a", "c", "c", "e", "s", "s", "-", "l", "i", "s",
        "t", " ", "e", "x", "t", "e", "n", "d", "e", "d", " ", "W", "E",
        "B">>
    }

SampleLines == {EntryLine(e) : e \in GrammarEntries} \cup OtherLines

RECURSIVE LineSeqs(_)
LineSeqs(n) ==
    IF n = 0 THEN {<<>>}
    ELSE {<<l>> \o ls : l \in SampleLines, ls \in LineSeqs(n - 1)}

\* the texts of 1..MaxLines sample lines joined by newlines; the empty text is
\* the text of one empty line
SampleTexts ==
    UNION {{Join(ls, <<"\n">>) : ls \in LineSeqs(n)} : n \in 1..MaxLines}

----------------------------------------------------------------------------
(* Block scenario: one call of parse_acl_config(acl) *)

Init ==
    /\ acl \in SampleTexts
    /\ todo = <<>> /\ aces = <<>> /\ log = <<>>
    /\ last = Unset /\ ret = Unset /\ pc = "start"
    /\ AddrIdle /\ HitIdle

Called(line, res) == [kind |-> "call", line |-> line, res |-> res]

\* aces = []; for ace_config in acl.split('\n'):
SplitLines ==
    /\ pc = "start"
    /\ todo' = Split(acl, "\n")
    /\ aces' = <<>>
    /\ pc' = "loop"
    /\ UNCHANGED <<acl, log, last, ret, addrVars, hitVars>>

\* try: aces.append(self.parse_ace_config(ace_config))
AppendParsed ==
    /\ pc = "loop" /\ todo # <<>>
    /\ \E res \in {parse_ace_config(Head(todo))} :
          /\ res.kind = "ok"
          /\ aces' = AppendAce(aces, res.ace)
          /\ last' = Called(Head(todo), res)
    /\ todo' = Tail(todo)
    /\ UNCHANGED <<acl, log, ret, pc, addrVars, hitVars>>

\* except ParserExceptionInvalidEntry: self._logger.warning(...)
SkipInvalid ==
    /\ pc = "loop" /\ todo # <<>>
    /\ \E res \in {parse_ace_config(Head(todo))} :
          /\ res.kind = "ParserExceptionInvalidEntry"
          /\ last' = Called(Head(todo), res)
    /\ log' = LogWarning(log, Head(todo))
    /\ todo' = Tail(todo)
    /\ UNCHANGED <<acl, aces, ret, pc, addrVars, hitVars>>

\* any other exception of parse_ace_config leaves parse_acl_config
Escape ==
    /\ pc = "loop" /\ todo # <<>>
    /\ \E res \in {parse_ace_config(Head(todo))} :
          /\ res.kind \notin {"ok", "ParserExceptionInvalidEntry"}
          /\ ret' = Raised(res.kind)
          /\ last' = Called(Head(todo), res)
    /\ pc' = "done"
    /\ UNCHANGED <<acl, todo, aces, log, addrVars, hitVars>>

\* return AccessList(aces=aces)
Return ==
    /\ pc = "loop" /\ todo = <<>>
    /\ ret' = [kind |-> "ok", value |-> AccessList(aces)]
    /\ pc' = "done"
    /\ UNCHANGED <<acl, todo, aces, log, last, addrVars, hitVars>>

Next == SplitLines \/ AppendParsed \/ SkipInvalid \/ Escape \/ Return

Spec == Init /\ [][Next]_vars

----------------------------------------------------------------------------
(* Address scenario: construct an IPv4Address, render it, construct again *)

MaxLeadingZeros == 1

OctetValues == {0, 9, 10, 255, 300}

ByteValues == {0, 1, 9, 10, 99, 100, 255}

RECURSIVE Zeros(_)
Zeros(k) == IF k = 0 THEN <<>> ELSE <<"0">> \o Zeros(k - 1)

OctetTexts ==
    {Zeros(k) \o IntToStr(v) : k \in 0..MaxLeadingZeros, v \in OctetValues}

QuadTexts ==
    {Join(<<a, b, c, d>>, <<".">>) : a \in OctetTexts, b \in OctetTexts,
                                     c \in OctetTexts, d \in OctetTexts}

OddTexts ==
    { <<>>, <<"1", ".", "2", ".", "3">>, <<"1", ".", ".", "2", ".", "3">>,
      <<"1", ".", "2", ".", "3", ".", "4", ".", "5">>,
      <<"1", ".", "2", ".", "3", ".", "x">>,
      <<" ", "1", ".", "2", ".", "3", ".", "4">>,
      <<"1", ".", "2", ".", "3", ".", "4", "\n">> }

QuadInts ==
    {Big(a * 256 + b, c * 256 + d) : a \in ByteValues, b \in ByteValues,
                                     c \in ByteValues, d \in ByteValues}

AddrInputs ==
    {PyStr(s) : s \in QuadTexts \cup OddTexts}
    \cup {PyInt(n) : n \in QuadInts \cup {Big(-1, Limb - 1), Big(Limb, 0)}}
    \cup {PyNone}

AddrInit ==
    /\ ip \in AddrInputs
    /\ addr = Unset /\ text = <<>> /\ addr2 = Unset /\ apc = "new"
    /\ AclIdle /\ HitIdle

\* addr = IPv4Address(ip)
Construct ==
    /\ apc = "new"
    /\ addr' = IPv4Address(ip)
    /\ apc' = "built"
    /\ UNCHANGED <<ip, text, addr2, aclVars, hitVars>>

\* text = str(addr)
Render ==
    /\ apc = "built" /\ addr.kind = "ok"
    /\ text' = ToStr(addr.ip)
    /\ apc' = "shown"
    /\ UNCHANGED <<ip, addr, addr2, aclVars, hitVars>>

\* addr2 = IPv4Address(text)
Reconstruct ==
    /\ apc = "shown"
    /\ addr2' = IPv4Address(PyStr(text))
    /\ apc' = "reparsed"
    /\ UNCHANGED <<ip, addr, text, aclVars, hitVars>>

AddrNext == Construct \/ Render \/ Reconstruct

SpecAddr == AddrInit /\ [][AddrNext]_vars

----------------------------------------------------------------------------
(* models.py: AccessListEntry.is_hit, and one call of it *)

\* AccessListEntry.is_hit: 'raise NotImplemented' raises TypeError, since
\* NotImplemented is no exception
is_hit(self, pkt) == Raised("TypeError")

QuadValue(o) == Big(o[1] * 256 + o[2], o[3] * 256 + o[4])

\* ACEIPv4Address(address=IPv4Address(a), wildcard_mask=IPv4Address(w))
AceAddr(a, w) ==
    [address |-> [ip |-> QuadValue(a)], wildcard_mask |-> [ip |-> QuadValue(w)]]

\* entries built with the constructor, as parser_cli.py builds one
SampleAces ==
    {[index_number |-> PyInt(10), action |-> "permit", protocol |-> pr,
      source_ipv4 |-> s, source_port |-> sp,
      destination_ipv4 |-> d, destination_port |-> dp] :
        pr \in {"ip", "tcp", "udp"},
        s \in {PyNone, AceAddr(<<192, 168, 10, 0>>, <<0, 0, 0, 255>>)},
        sp \in {PyNone, PyInt(5192)},
        d \in {PyNone, AceAddr(<<10, 0, 0, 5>>, <<0, 0, 0, 0>>),
               AceAddr(<<0, 0, 0, 0>>, <<255, 255, 255, 255>>)},
        dp \in {PyNone, PyInt(80)}}

SamplePackets ==
    {[protocol |-> pr, source_ipv4 |-> [ip |-> QuadValue(s)],
      source_port |-> PyInt(5192),
      destination_ipv4 |-> [ip |-> QuadValue(d)], destination_port |-> dp] :
        pr \in {"tcp", "udp"},
        s \in {<<192, 168, 10, 1>>, <<192, 168, 11, 1>>},
        d \in {<<10, 0, 0, 5>>, <<10, 0, 0, 6>>},
        dp \in {PyInt(80), PyInt(53)}}

HitInit ==
    /\ ace \in SampleAces /\ packet \in SamplePackets
    /\ hit = Unset /\ hpc = "new"
    /\ AclIdle /\ AddrIdle

\* ace.is_hit(packet)
CallIsHit ==
    /\ hpc = "new"
    /\ hit' = is_hit(ace, packet)
    /\ hpc' = "done"
    /\ UNCHANGED <<ace, packet, aclVars, addrVars>>

HitNext == CallIsHit

SpecHit == HitInit /\ [][HitNext]_vars

----------------------------------------------------------------------------
(* Claims about the parsers *)

IsNone(v) == "type" \in DOMAIN v /\ v.type = "NoneType"

Newlines(txt) == {k \in 1..Len(txt) : txt[k] = "\n"}

\* the number of newline-delimited lines of a text
LineCount(txt) == Cardinality(Newlines(txt)) + 1

\* the position of the n-th newline; 0 for n = 0, the end for the last line
NthNewline(txt, n) ==
    IF n = 0 THEN 0
    ELSE IF n > Cardinality(Newlines(txt)) THEN Len(txt) + 1
    ELSE CHOOSE k \in Newlines(txt) :
            Cardinality({j \in Newlines(txt) : j <= k}) = n

\* the lines of a text, in order
TextLines(txt) ==
    [n \in 1..LineCount(txt) |->
        SubSeq(txt, NthNewline(txt, n - 1) + 1, NthNewline(txt, n) - 1)]

Accepts(l) == parse_ace_config(l).kind = "ok"
Rejects(l) == ~Accepts(l)
AceOf(l) == parse_ace_config(l).ace

\* the ACEs of the accepted lines, in the order of the lines
AcceptedAces(lines) ==
    [k \in 1..Len(SelectSeq(lines, Accepts)) |->
        AceOf(SelectSeq(lines, Accepts)[k])]

\* one warning for each rejected line, in the order of the lines
RejectedWarnings(lines) ==
    [k \in 1..Len(SelectSeq(lines, Rejects)) |->
        [levelname |-> "WARNING", msg |-> "Skipping invalid line \"%s\"",
         args |-> <<SelectSeq(lines, Rejects)[k]>>]]

Returned == pc = "done" /\ ret.kind = "ok"

\* C1: parse_acl_config never fails because of a malformed line: whatever
\* lines the text holds, the call ends by returning an AccessList.
C1_NeverFails == pc = "done" => ret.kind = "ok"

\* C2: when parse_acl_config returns, the AccessList holds exactly the ACEs of
\* the lines the line parser accepts, in line order, one warning was emitted
\* for each rejected line, and ACEs plus warnings number the lines of the text.
C2_AcesAndDiagnostics ==
    Returned =>
        /\ ret.value.aces = AcceptedAces(TextLines(acl))
        /\ log = RejectedWarnings(TextLines(acl))
        /\ Len(ret.value.aces) + Len(log) = LineCount(acl)

C2_Witness ==
    /\ Returned
    /\ LineCount(acl) = 2
    /\ Len(ret.value.aces) = 1 /\ Len(log) = 1

\* C3: parse_acl_config of the empty text returns an AccessList with zero
\* ACEs and emits no diagnostic.
C3_EmptyTextNoDiagnostics ==
    (pc = "done" /\ acl = <<>>)
        => (ret.kind = "ok" /\ ret.value.aces = <<>> /\ log = <<>>)

ExpectedAddr(a) ==
    IF a.form = "any"
    THEN AceAddr(<<0, 0, 0, 0>>, <<255, 255, 255, 255>>)
    ELSE IF a.form = "host" THEN AceAddr(a.a, <<0, 0, 0, 0>>)
    ELSE AceAddr(a.a, a.w)

\* the ACE a grammar entry denotes
ExpectedAce(e) ==
    [index_number |-> PyInt(e.index), action |-> e.action,
     protocol |-> e.protocol,
     source_ipv4 |-> ExpectedAddr(e.src), source_port |-> e.sport,
     destination_ipv4 |-> ExpectedAddr(e.dst), destination_port |-> e.dport]

\* C5: for every line that conforms to the ACE grammar, parse_ace_config
\* returns the ACE with the header's index, action and protocol, the address
\* pairs of the remainder (any = 0.0.0.0/255.255.255.255, host X = X/0.0.0.0)
\* and, as ports, the numbers of the eq clauses, a missing clause leaving the
\* port unset.
C5_GrammarLineGivesItsAce ==
    \A e \in GrammarEntries :
        (last.kind = "call" /\ last.line = EntryLine(e))
            => (last.res.kind = "ok" /\ last.res.ace = ExpectedAce(e))

\* C6: for every input line, parse_ace_config returns an ACE or fails with
\* ParserExceptionInvalidEntry, and with no other kind of error.
C6_OnlyInvalidEntryErrors ==
    last.kind = "call"
        => last.res.kind \in {"ok", "ParserExceptionInvalidEntry"}

PositiveInt(v) == v.type = "int" /\ v.val >= 1

WellFormedAce(a) ==
    /\ PositiveInt(a.index_number)
    /\ IsNone(a.source_port) \/ PositiveInt(a.source_port)
    /\ IsNone(a.destination_port) \/ PositiveInt(a.destination_port)

\* C10: every ACE parse_ace_config returns, and so every ACE of a returned
\* AccessList, has an integer index_number >= 1 and ports that are unset or
\* integers >= 1.
C10_PositiveIndexAndPorts ==
    /\ (last.kind = "call" /\ last.res.kind = "ok")
           => WellFormedAce(last.res.ace)
    /\ Returned
           => \A k \in 1..Len(ret.value.aces) : WellFormedAce(ret.value.aces[k])

----------------------------------------------------------------------------
(* Claims about is_hit *)

\* bit b (0 the least significant) of a 32-bit value
Bit(n, b) ==
    IF b < 16 THEN (n.lo \div (2 ^ b)) % 2 ELSE (n.hi \div (2 ^ (b - 16))) % 2

\* the wildcard rule: equal wherever the wildcard bit is 0
AddrMatches(spec, cand) ==
    \A b \in 0..31 :
        Bit(spec.wildcard_mask.ip, b) = 0
            => Bit(cand.ip, b) = Bit(spec.address.ip, b)

HitContract(a, pkt) ==
    /\ a.protocol = "ip" \/ a.protocol = pkt.protocol
    /\ IsNone(a.source_ipv4) \/ AddrMatches(a.source_ipv4, pkt.source_ipv4)
    /\ IsNone(a.destination_ipv4)
           \/ AddrMatches(a.destination_ipv4, pkt.destination_ipv4)
    /\ IsNone(a.source_port) \/ a.source_port = pkt.source_port
    /\ IsNone(a.destination_port) \/ a.destination_port = pkt.destination_port

\* C4: is_hit returns a boolean for every ACE and packet, true iff the
\* protocol, both addresses (under the wildcard rule) and both ports agree,
\* an absent constraint of the ACE agreeing with everything.
C4_IsHitDecides ==
    hpc = "done"
        => (hit.kind = "ok" /\ hit.value = PyBool(HitContract(ace, packet)))

----------------------------------------------------------------------------
(* Claims about IPv4Address *)

\* a decimal group without its leading zeros
RECURSIVE StripZeros(_)
StripZeros(s) ==
    IF Len(s) > 1 /\ s[1] = "0" THEN StripZeros(Tail(s)) ELSE s

AllDigits(s) == Len(s) > 0 /\ \A k \in 1..Len(s) : IsDigit(s[k])

\* a textual group denoting a number of 0..255
IsByteText(s) ==
    /\ AllDigits(s)
    /\ Len(StripZeros(s)) <= 3
    /\ StrToInt(StripZeros(s)) <= 255

\* four dot-separated decimal groups, each in 0..255
ValidQuad(s) ==
    LET parts == Split(s, ".")
    IN Len(parts) = 4 /\ \A k \in 1..4 : IsByteText(parts[k])

Canonical(s) ==
    LET parts == Split(s, ".")
    IN Join([k \in 1..Len(parts) |-> StripZeros(parts[k])], <<".">>)

\* four dot-separated decimal groups of which at least one exceeds 255
HasOctetOver255(s) ==
    LET parts == Split(s, ".")
    IN /\ Len(parts) = 4
       /\ \A k \in 1..4 : AllDigits(parts[k])
       /\ \E k \in 1..4 : ~IsByteText(parts[k])

\* C7: constructing an IPv4Address from a dotted-quad string fails with an
\* address error whenever any of the four octets is greater than 255, in
\* whichever position it stands; only strings of four octets each in 0..255
\* construct an address.
C7_OctetOver255Fails ==
    (apc = "built" /\ ip.type = "str" /\ HasOctetOver255(ip.val))
        => addr.kind = "IPv4AddressException"

\* C8: for every integer n in 0..2^32-1, constructing from the rendering of
\* IPv4Address(n) gives an address whose value is n.
C8_IntRoundTrip ==
    (apc = "reparsed" /\ ip.type = "int")
        => (addr2.kind = "ok" /\ addr2.ip = ip.val)

C8_Witness ==
    /\ apc = "reparsed" /\ ip.type = "int"
    /\ ip.val = Big(255 * 256 + 100, 10 * 256 + 9)
    /\ text = <<"2", "5", "5", ".", "1", "0", "0", ".", "1", "0", ".", "9">>
    /\ addr2.kind = "ok"

\* C9: for every valid dotted-quad string s (leading zeros allowed),
\* rendering the address constructed from s gives the canonical form of s.
C9_TextRoundTrip ==
    (apc \in {"built", "shown", "reparsed"} /\ ip.type = "str"
        /\ ValidQuad(ip.val))
        => /\ addr.kind = "ok"
           /\ apc # "built" => text = Canonical(ip.val)

C9_Witness ==
    /\ apc = "shown" /\ ip.type = "str"
    /\ ip.val = <<"0", "1", "0", ".", "0", "0", ".", "2", "5", "5", ".",
                  "0", "9">>
    /\ text = <<"1", "0", ".", "0", ".", "2", "5", "5", ".", "9">>

====
